---- MODULE Spec2Model ----
(***************************************************************************)
(* Model of scripts/collect.py: the per-repository collection pass         *)
(* (collect_repo), the date-keyed CSV store it writes (aggregate.csv,      *)
(* releases.csv, packages.csv, star_history.csv, snapshots/<date>.json),   *)
(* the release download delta computation and the npm backfill.            *)
(*                                                                         *)
(* One repository directory is modelled: every path collect_repo touches   *)
(* lies under DATA_DIR/owner/repo, so repositories do not interact.        *)
(* Dates are UTC day numbers; strftime("%Y-%m-%d") is fixed width, so      *)
(* string equality and string order of dates are equality and order of     *)
(* day numbers.  A CSV file is [exists, rows]: the header line is written  *)
(* by ensure_csv_headers and skipped by csv.DictReader, the rows are the   *)
(* records DictReader yields, in file order.                               *)
(***************************************************************************)
EXTENDS Integers, Sequences, FiniteSets, TLC

VARIABLES
    today,          \* the UTC day main() reads at line 744
    snapshots,      \* snapshots/<date>.json: function from the dates that have a file to its content
    aggregate_csv,  \* aggregate.csv
    releases_csv,   \* releases.csv
    packages_csv,   \* packages.csv
    star_history_csv, \* star_history.csv
    last,           \* observation of the most recent operation (what it was given, did and returned)
    npm_response,   \* the registry's answer to a range request given directly to collect_npm_history
    npm_records,    \* what collect_npm_history returned for npm_response
    stargazers,     \* the stargazer feed given directly to collect_star_history
    star_sample,    \* what collect_star_history did with stargazers and returned
    data_dirs,      \* main's view of DATA_DIR: each configured repository's directory
    main_run        \* one run of main: its configuration, loop position, tally and exit status

vars == <<today, snapshots, aggregate_csv, releases_csv, packages_csv, star_history_csv, last,
          npm_response, npm_records, stargazers, star_sample, data_dirs, main_run>>

star_vars == <<stargazers, star_sample>>

main_vars == <<data_dirs, main_run>>

persisted == <<snapshots, aggregate_csv, releases_csv, packages_csv, star_history_csv>>

----------------------------------------------------------------------------
(* Bounds of the model *)

MaxDays == 2        \* number of consecutive days on which passes run
MaxBatch == 8       \* longest historical batch given directly to collect_npm_history
MaxExcess == 2      \* stargazer feeds have up to PageCap + MaxExcess pages
MaxRepos == 2       \* longest list of repositories in main's configuration
MaxStoreDays == 3   \* number of dates the store operations are called with directly

(* Program constants *)

BackfillThreshold == 30     \* line 683: len(existing_dates) < 30
HistoryDays == 365          \* line 416: timedelta(days=365)
SmallFileBytes == 500       \* line 711: st_size < 500
StarHeaderBytes == 12       \* line 37: "date,stars" plus the CRLF csv.writer ends a row with
DateChars == 10             \* line 300: starred_at[:10], "YYYY-MM-DD"

FirstDay == HistoryDays + 1
Days == FirstDay .. (FirstDay + MaxDays - 1)

----------------------------------------------------------------------------
(* Generic helpers *)

Max(a, b) == IF a >= b THEN a ELSE b

RECURSIVE SumSeq(_)
SumSeq(s) == IF s = <<>> THEN 0 ELSE Head(s) + SumSeq(Tail(s))

RECURSIVE Concat(_)
Concat(ss) == IF ss = <<>> THEN <<>> ELSE Head(ss) \o Concat(Tail(ss))

Map(f(_), s) == [i \in DOMAIN s |-> f(s[i])]

Filter(p(_), s) == SelectSeq(s, p)

(* list.sort(key=date): a stable sort by the date field (insertion sort) *)
RECURSIVE InsertByDate(_, _)
InsertByDate(r, s) ==
    IF s = <<>> THEN <<r>>
    ELSE IF s[Len(s)].date <= r.date THEN Append(s, r)
    ELSE Append(InsertByDate(r, SubSeq(s, 1, Len(s) - 1)), s[Len(s)])

RECURSIVE SortByDateFrom(_, _)
SortByDateFrom(done, rest) ==
    IF rest = <<>> THEN done
    ELSE SortByDateFrom(InsertByDate(Head(rest), done), Tail(rest))

(* mutant: the list is left in the order it was built *)
SortByDate_Unsorted(s) == s

SortByDate(s) == SortByDateFrom(<<>>, s)

----------------------------------------------------------------------------
(* The CSV store *)

NoFile == [exists |-> FALSE, rows |-> <<>>]

ensure_csv_headers(csv) ==
    IF ~csv.exists THEN [exists |-> TRUE, rows |-> <<>>] ELSE csv

(* mutant: only the last row is compared *)
date_exists_in_csv_LastRowOnly(csv, date) ==
    /\ csv.exists
    /\ csv.rows # <<>>
    /\ csv.rows[Len(csv.rows)].date = date

date_exists_in_csv(csv, date) ==
    /\ csv.exists
    /\ \E i \in DOMAIN csv.rows : csv.rows[i].date = date

(* mutant: the new rows are put in front of the old ones *)
AppendRows_InFront(csv, rows) == [exists |-> TRUE, rows |-> rows \o csv.rows]

(* open(csv_path, "a") and writerow for each row *)
AppendRows(csv, rows) == [exists |-> TRUE, rows |-> csv.rows \o rows]

(* mutant: the row is appended without the date check *)
append_aggregate_row_Unchecked(csv, date, snapshot) ==
    [csv |-> AppendRows(csv, <<[date |-> date,
                                stars |-> snapshot.repo.stars,
                                releases_downloads |-> snapshot.releases_downloads]>>),
     ret |-> TRUE]

calculate_total_downloads(releases) ==
    SumSeq(Concat(Map(LAMBDA release :
                         Map(LAMBDA asset : asset.download_count, release.assets),
                      releases)))

(* the aggregate row: the columns whose source this model carries (date,
   stars, releases_downloads); the traffic and issue columns come from
   fetches the model does not distinguish *)
append_aggregate_row(csv, date, snapshot) ==
    LET c1 == ensure_csv_headers(csv)
        row == [date |-> date,
                stars |-> snapshot.repo.stars,
                releases_downloads |-> snapshot.releases_downloads]
    IN  IF date_exists_in_csv(c1, date)
        THEN [csv |-> c1, ret |-> FALSE]
        ELSE [csv |-> AppendRows(c1, <<row>>), ret |-> TRUE]

(* key = f"{tag}|{name}".  The key names one pair as long as asset names hold
   no "|" (GitHub renames uploaded assets to plain file names). *)
ReleaseKey(tag, name) == tag \o "|" \o name

(* mutant: the row of the greatest date wins, whatever its place in the file *)
get_previous_releases_data_GreatestDate(csv) ==
    IF ~csv.exists THEN << >>
    ELSE LET keys == {ReleaseKey(csv.rows[i].tag, csv.rows[i].asset_name) : i \in DOMAIN csv.rows}
             latestOf(k) == CHOOSE i \in DOMAIN csv.rows :
                               /\ ReleaseKey(csv.rows[i].tag, csv.rows[i].asset_name) = k
                               /\ \A j \in DOMAIN csv.rows :
                                     ReleaseKey(csv.rows[j].tag, csv.rows[j].asset_name) = k
                                        => csv.rows[j].date <= csv.rows[i].date
         IN  [k \in keys |-> csv.rows[latestOf(k)].download_count]

(* previous[key] = int(row["download_count"]) for each row in file order:
   the last row of a key wins.  A dict is a function on its keys. *)
get_previous_releases_data(csv) ==
    IF ~csv.exists THEN << >>
    ELSE LET keys == {ReleaseKey(csv.rows[i].tag, csv.rows[i].asset_name) : i \in DOMAIN csv.rows}
             lastOf(k) == CHOOSE i \in DOMAIN csv.rows :
                             /\ ReleaseKey(csv.rows[i].tag, csv.rows[i].asset_name) = k
                             /\ \A j \in DOMAIN csv.rows :
                                   ReleaseKey(csv.rows[j].tag, csv.rows[j].asset_name) = k => j <= i
         IN  [k \in keys |-> csv.rows[lastOf(k)].download_count]

(* mutant: a missing key reads as 0, so a new pair's delta is its whole count *)
DictGet_ZeroDefault(d, key, default) == IF key \in DOMAIN d THEN d[key] ELSE 0

(* previous_data.get(key, count) *)
DictGet(d, key, default) == IF key \in DOMAIN d THEN d[key] ELSE default

(* mutant: a negative delta is clamped to 0 *)
ReleaseRows_Clamped(date, releases, previous_data) ==
    Concat(Map(LAMBDA release :
                  Map(LAMBDA asset :
                         [date |-> date,
                          tag |-> release.tag,
                          asset_name |-> asset.name,
                          asset_size |-> asset.size,
                          download_count |-> asset.download_count,
                          downloads_delta |->
                              Max(0, asset.download_count
                                       - DictGet(previous_data,
                                                 ReleaseKey(release.tag, asset.name),
                                                 asset.download_count))],
                      release.assets),
               releases))

ReleaseRows(date, releases, previous_data) ==
    Concat(Map(LAMBDA release :
                  Map(LAMBDA asset :
                         LET key == ReleaseKey(release.tag, asset.name)
                             previous_count == DictGet(previous_data, key, asset.download_count)
                         IN  [date |-> date,
                              tag |-> release.tag,
                              asset_name |-> asset.name,
                              asset_size |-> asset.size,
                              download_count |-> asset.download_count,
                              downloads_delta |-> asset.download_count - previous_count],
                      release.assets),
               releases))

update_releases_csv(csv, date, releases, previous_data) ==
    LET c1 == ensure_csv_headers(csv)
    IN  IF date_exists_in_csv(c1, date)
        THEN [csv |-> c1, ret |-> FALSE]
        ELSE [csv |-> AppendRows(c1, ReleaseRows(date, releases, previous_data)), ret |-> TRUE]

PackageRows(date, packages_data) ==
    Map(LAMBDA pkg : [date |-> date,
                      source |-> pkg.source,
                      package |-> pkg.package,
                      daily_downloads |-> pkg.daily_downloads,
                      weekly_downloads |-> pkg.weekly_downloads],
        packages_data)

(* mutant: today's rows are appended without the date check *)
update_packages_csv_Unchecked(csv, date, packages_data) ==
    [csv |-> AppendRows(csv, [i \in DOMAIN packages_data |->
                                [date |-> date,
                                 source |-> packages_data[i].source,
                                 package |-> packages_data[i].package,
                                 daily_downloads |-> packages_data[i].daily_downloads,
                                 weekly_downloads |-> packages_data[i].weekly_downloads]]),
     ret |-> TRUE]

update_packages_csv(csv, date, packages_data) ==
    LET c1 == ensure_csv_headers(csv)
    IN  IF date_exists_in_csv(c1, date)
        THEN [csv |-> c1, ret |-> FALSE]
        ELSE [csv |-> AppendRows(c1, PackageRows(date, packages_data)), ret |-> TRUE]

----------------------------------------------------------------------------
(* Package registry collection *)

NpmSource == "npm"
HttpOk == 200
RequestException == 0   \* stands for requests raising RequestException instead of answering

(* resp: the registry's answers to the two point requests, [daily, weekly],
   each [status, downloads].  A RequestException raised by the first request
   leaves both figures 0 (the second request is not made). *)
collect_npm_downloads(package_name, resp) ==
    LET daily == IF resp.daily.status = HttpOk THEN resp.daily.downloads ELSE 0
        weekly == IF /\ resp.daily.status # RequestException
                     /\ resp.weekly.status = HttpOk
                  THEN resp.weekly.downloads ELSE 0
    IN  [package |-> package_name, source |-> NpmSource,
         daily_downloads |-> daily, weekly_downloads |-> weekly]

(* live: package name -> the answers to its point requests *)
collect_package_downloads(packages_config, live) ==
    LET stats == Map(LAMBDA package_name : collect_npm_downloads(package_name, live[package_name]),
                     packages_config.npm)
    IN  Filter(LAMBDA st : st.daily_downloads > 0 \/ st.weekly_downloads > 0, stats)

(* mutant: the window reaches one record further back *)
WeeklySum_EightRecords(records, i) ==
    SumSeq([j \in 1 .. (i - Max(0, (i - 1) - 7)) |->
               records[Max(0, (i - 1) - 7) + j].daily_downloads])

(* lines 391-396: the rolling sum of record i (1-based here) over
   records[start_idx:i+1] *)
WeeklySum(records, i) ==
    LET start_idx == Max(0, (i - 1) - 6)
    IN  SumSeq([j \in 1 .. (i - start_idx) |-> records[start_idx + j].daily_downloads])

WithWeeklySums(records) ==
    [i \in DOMAIN records |-> [records[i] EXCEPT !.weekly_downloads = WeeklySum(records, i)]]

(* resp: the registry's answer to the range request, [status, downloads],
   downloads a sequence of [day, downloads] *)
collect_npm_history(package_name, resp) ==
    IF resp.status = HttpOk
    THEN WithWeeklySums(Map(LAMBDA entry : [date |-> entry.day,
                                            package |-> package_name,
                                            source |-> NpmSource,
                                            daily_downloads |-> entry.downloads,
                                            weekly_downloads |-> 0],
                            resp.downloads))
    ELSE <<>>

(* the range the planner asks for: one year ago to yesterday, by the clock
   read when collect_package_history runs *)
HistoryStart(clock) == clock - HistoryDays
HistoryEnd(clock) == clock - 1

(* the registry's answer to a range request: hist[package] = [status, days]
   says how it answers, with one entry per day for the last `days` days of
   the requested range *)
NpmRange(hist, package_name, start_date, end_date) ==
    LET n == IF hist[package_name].days <= end_date - start_date + 1
             THEN hist[package_name].days ELSE end_date - start_date + 1
    IN  [status |-> hist[package_name].status,
         downloads |-> [i \in 1 .. n |-> [day |-> end_date - n + i, downloads |-> 1]]]

(* mutant: the known dates are not filtered out *)
collect_package_history_Unfiltered(packages_config, existing_dates, clock, hist) ==
    Concat(Map(LAMBDA package_name :
                  collect_npm_history(package_name,
                      NpmRange(hist, package_name, HistoryStart(clock), HistoryEnd(clock))),
               packages_config.npm))

(* hist says how the registry answers each package's range request *)
collect_package_history(packages_config, existing_dates, clock, hist) ==
    Concat(Map(LAMBDA package_name :
                  Filter(LAMBDA r : r.date \notin existing_dates,
                         collect_npm_history(package_name,
                             NpmRange(hist, package_name, HistoryStart(clock), HistoryEnd(clock)))),
               packages_config.npm))

(* lines 675-680: the dates DictReader yields from packages.csv *)
ExistingDates(csv) ==
    IF csv.exists THEN {csv.rows[i].date : i \in DOMAIN csv.rows} ELSE {}

----------------------------------------------------------------------------
(* star_history.csv *)

RECURSIVE Digits(_)
Digits(n) == IF n < 10 THEN 1 ELSE 1 + Digits(n \div 10)

(* st_size of the file csv.writer produced: the header row, then one
   "YYYY-MM-DD,<stars>" row per point, each ended by CRLF *)
StarFileBytes(csv) ==
    StarHeaderBytes + SumSeq(Map(LAMBDA r : DateChars + 1 + Digits(r.stars) + 2, csv.rows))

(* mutant: the sampled points are appended to the rows already there *)
UpdateStarHistory_Merge(csv, star_history) ==
    IF star_history # <<>> /\ (~csv.exists \/ StarFileBytes(csv) < SmallFileBytes)
    THEN [exists |-> TRUE, rows |-> csv.rows \o star_history]
    ELSE csv

(* lines 710-718 *)
UpdateStarHistory(csv, star_history) ==
    IF star_history # <<>> /\ (~csv.exists \/ StarFileBytes(csv) < SmallFileBytes)
    THEN [exists |-> TRUE, rows |-> star_history]
    ELSE csv

----------------------------------------------------------------------------
(* collect_star_history *)

SampleCount == 15       \* line 250: sample_count: int = 15
PageCap == 400          \* line 279: page_count > 400
PageSize == 100         \* line 314: (page - 1) * 100 + 1

(* A stargazer feed: first is how the first request (page 1) is answered,
   page_count the number the Link header's rel="last" gives (1 without the
   header), every/how say which later pages fail and how (every = 0: none),
   chronological whether starred_at grows with the page. Answers: "ok" (200,
   non-empty), "empty" (200, []), "status" (not 200), "exception"
   (requests raises RequestException). *)
PageAnswer(feed, page) ==
    IF page = 1 THEN feed.first
    ELSE IF feed.every > 0 /\ page % feed.every = 0 THEN feed.how
    ELSE "ok"

(* data[0]["starred_at"][:10] of a page *)
StarredAt(feed, page) == IF feed.chronological THEN page ELSE (PageCap + 1) - page

(* round(n / k): Python rounds a half to the even neighbour *)
RoundDiv(n, k) ==
    IF 2 * (n % k) < k THEN n \div k
    ELSE IF 2 * (n % k) > k THEN (n \div k) + 1
    ELSE IF (n \div k) % 2 = 0 THEN n \div k
    ELSE (n \div k) + 1

(* mutant: the page count is used as the Link header gave it *)
CapPages_Uncapped(page_count) == page_count

(* lines 279-281 *)
CapPages(page_count) == IF page_count > PageCap THEN PageCap ELSE page_count

(* lines 291-292 *)
ForceFirst(sample_pages) ==
    IF \E i \in DOMAIN sample_pages : sample_pages[i] = 1
    THEN sample_pages
    ELSE [sample_pages EXCEPT ![1] = 1]

(* mutant: range(1, page_count) leaves the last page out *)
SamplePages_DropLast(page_count, sample_count) ==
    IF page_count <= sample_count
    THEN [i \in 1 .. (page_count - 1) |-> i]
    ELSE ForceFirst([i \in 1 .. sample_count |->
                        Max(1, RoundDiv(i * page_count, sample_count))])

(* lines 284-292 *)
SamplePages(page_count, sample_count) ==
    IF page_count <= sample_count
    THEN [i \in 1 .. page_count |-> i]
    ELSE ForceFirst([i \in 1 .. sample_count |->
                        Max(1, RoundDiv(i * page_count, sample_count))])

(* list.remove(v): the first occurrence is removed *)
RECURSIVE Remove(_, _)
Remove(s, v) ==
    IF s = <<>> THEN <<>>
    ELSE IF Head(s) = v THEN Tail(s)
    ELSE <<Head(s)>> \o Remove(Tail(s), v)

StarRecord(feed, page) == [date |-> StarredAt(feed, page), stars |-> (page - 1) * PageSize + 1]

(* lines 306-315: acc holds the records so far and the pages requested so far;
   an exception raised by a request leaves the loop for line 322 *)
RECURSIVE FetchPages(_, _, _)
FetchPages(feed, sample_pages, acc) ==
    IF sample_pages = <<>> THEN acc
    ELSE IF PageAnswer(feed, Head(sample_pages)) = "exception"
    THEN [acc EXCEPT !.requested = Append(@, Head(sample_pages)), !.caught = TRUE]
    ELSE FetchPages(feed, Tail(sample_pages),
             [acc EXCEPT !.requested = Append(@, Head(sample_pages)),
                         !.star_records =
                             IF PageAnswer(feed, Head(sample_pages)) = "ok"
                             THEN Append(@, StarRecord(feed, Head(sample_pages)))
                             ELSE @])

(* lines 296-303: the first page is the answer already received *)
FirstPage(feed, sample_pages, truncated) ==
    IF feed.first = "ok" /\ \E i \in DOMAIN sample_pages : sample_pages[i] = 1
    THEN [star_records |-> <<StarRecord(feed, 1)>>, requested |-> <<1>>, caught |-> FALSE,
          truncated |-> truncated, rest |-> Remove(sample_pages, 1)]
    ELSE [star_records |-> <<>>, requested |-> <<1>>, caught |-> FALSE,
          truncated |-> truncated, rest |-> sample_pages]

(* lines 318-324: what the caller gets.  points: the list returned; requested:
   the page of each request made, in order; truncated: line 280 reported the
   cap; caught: line 322 caught a RequestException *)
StarResult(acc) ==
    [points |-> IF acc.caught THEN <<>> ELSE SortByDate(acc.star_records),
     requested |-> acc.requested,
     truncated |-> acc.truncated,
     caught |-> acc.caught]

SampleFrom(feed, first) == StarResult(FetchPages(feed, first.rest, first))

(* lines 250-324 *)
collect_star_history(feed, sample_count) ==
    IF feed.first = "exception"
    THEN [points |-> <<>>, requested |-> <<1>>, truncated |-> FALSE, caught |-> TRUE]
    ELSE IF feed.first = "status"
    THEN [points |-> <<>>, requested |-> <<1>>, truncated |-> FALSE, caught |-> FALSE]
    ELSE SampleFrom(feed, FirstPage(feed,
                              SamplePages(CapPages(feed.page_count), sample_count),
                              feed.page_count > PageCap))

----------------------------------------------------------------------------
(* The remote sources, as one pass sees them *)

(* mutant: any answer is taken for the profile *)
collect_repo_info_AnyStatus(resp) == [ok |-> TRUE, stars |-> resp.stars]

(* collect_repo_info: None unless api_get answers 200 with a body *)
collect_repo_info(resp) ==
    IF resp.status = HttpOk
    THEN [ok |-> TRUE, stars |-> resp.stars]
    ELSE [ok |-> FALSE, stars |-> 0]

----------------------------------------------------------------------------
(* collect_repo *)

State == [snapshots |-> snapshots,
          aggregate_csv |-> aggregate_csv,
          releases_csv |-> releases_csv,
          packages_csv |-> packages_csv,
          star_history_csv |-> star_history_csv]

NotAttempted == "not attempted"
Appended == "appended"
AlreadyPresent == "already present"
Reported(ret) == IF ret THEN Appended ELSE AlreadyPresent

NoAppends == [aggregate |-> NotAttempted, releases |-> NotAttempted, packages |-> NotAttempted]

(* what a pass that stops before the packages step reports about it *)
NoPlan == [planned |-> FALSE, ranged |-> {}, received |-> 0, backfilled |-> <<>>]

(* a pass in progress: the files, what the appends reported so far, what the
   backfill planner did *)
Progress(st) == [state |-> st, appends |-> NoAppends, plan |-> NoPlan]

(* mutant: the snapshot check never finds the file *)
AlreadyCollected_Never(st, date) == FALSE

(* lines 610-611: snapshot_file.exists() *)
AlreadyCollected(st, date) == date \in DOMAIN st.snapshots

(* lines 631-648 *)
BuildSnapshot(repo_info, releases, star_history, packages_data) ==
    [repo |-> repo_info,
     releases |-> releases,
     releases_downloads |-> calculate_total_downloads(releases),
     star_history |-> star_history,
     packages |-> packages_data]

(* mutant: the snapshot file is not written *)
SaveSnapshot_Skipped(acc, date, snapshot) == acc

(* lines 651-652 *)
SaveSnapshot(acc, date, snapshot) ==
    [acc EXCEPT !.state.snapshots = (date :> snapshot) @@ @]

(* lines 656-660 *)
AggregateStep(acc, date, snapshot) ==
    LET r == append_aggregate_row(acc.state.aggregate_csv, date, snapshot)
    IN  [acc EXCEPT !.state.aggregate_csv = r.csv, !.appends.aggregate = Reported(r.ret)]

(* lines 663-668 *)
ReleasesStep(acc, date, releases) ==
    LET r == update_releases_csv(acc.state.releases_csv, date, releases,
                                 get_previous_releases_data(acc.state.releases_csv))
    IN  [acc EXCEPT !.state.releases_csv = r.csv, !.appends.releases = Reported(r.ret)]

(* mutant: the threshold comparison is off by one *)
NeedsBackfill_OffByOne(existing_dates) == Cardinality(existing_dates) <= BackfillThreshold

(* line 683 *)
NeedsBackfill(existing_dates) == Cardinality(existing_dates) < BackfillThreshold

(* the number of records the registry returned to the planner's range requests *)
Received(packages_config, clock, hist) ==
    SumSeq(Map(LAMBDA p : Len(collect_npm_history(p,
                                 NpmRange(hist, p, HistoryStart(clock), HistoryEnd(clock)))),
               packages_config.npm))

(* lines 692-699: the rows written for the historical records *)
HistoricalRows(historical_data) ==
    Map(LAMBDA pkg : [date |-> pkg.date,
                      source |-> pkg.source,
                      package |-> pkg.package,
                      daily_downloads |-> pkg.daily_downloads,
                      weekly_downloads |-> pkg.weekly_downloads],
        historical_data)

(* lines 686-700, historical_data already sorted by line 689 *)
AppendHistorical(acc, packages_config, historical_data, received) ==
    [acc EXCEPT !.state.packages_csv =
                    IF historical_data # <<>>
                    THEN AppendRows(ensure_csv_headers(@), HistoricalRows(historical_data))
                    ELSE @,
                !.plan = [planned |-> TRUE,
                          ranged |-> {packages_config.npm[i] : i \in DOMAIN packages_config.npm},
                          received |-> received,
                          backfilled |-> HistoricalRows(historical_data)]]

(* lines 683-700 *)
Backfill(acc, packages_config, existing_dates, clock, hist) ==
    IF NeedsBackfill(existing_dates)
    THEN AppendHistorical(acc, packages_config,
             SortByDate(collect_package_history(packages_config, existing_dates, clock, hist)),
             Received(packages_config, clock, hist))
    ELSE [acc EXCEPT !.plan = [NoPlan EXCEPT !.planned = TRUE]]

(* lines 671-700 *)
BackfillStep(acc, packages_config, clock, hist) ==
    IF packages_config.configured
    THEN Backfill(acc, packages_config, ExistingDates(acc.state.packages_csv), clock, hist)
    ELSE acc

(* mutant: today's rows are left out when the backfill received nothing *)
LiveStep_OnlyAfterBackfill(acc, date, packages_config, packages_data) ==
    IF packages_config.configured /\ packages_data # <<>>
          /\ ~(acc.plan.ranged # {} /\ acc.plan.received = 0)
    THEN [acc EXCEPT !.state.packages_csv = update_packages_csv(@, date, packages_data).csv,
                     !.appends.packages =
                         Reported(update_packages_csv(acc.state.packages_csv, date,
                                                      packages_data).ret)]
    ELSE acc

(* lines 702-707 *)
LiveStep(acc, date, packages_config, packages_data) ==
    IF packages_config.configured /\ packages_data # <<>>
    THEN LET r == update_packages_csv(acc.state.packages_csv, date, packages_data)
         IN  [acc EXCEPT !.state.packages_csv = r.csv, !.appends.packages = Reported(r.ret)]
    ELSE acc

(* lines 710-718 *)
StarStep(acc, star_history) ==
    [acc EXCEPT !.state.star_history_csv = UpdateStarHistory(@, star_history)]

AllFetches(packages_config) ==
    {"repo_info", "traffic", "releases", "languages", "code_frequency",
     "contributors", "star_history", "issue_counts"}
        \cup (IF packages_config.configured THEN {"package_downloads"} ELSE {})

Outcome(acc, outcome, fetched) ==
    [state |-> acc.state, outcome |-> outcome, fetched |-> fetched,
     appends |-> acc.appends, plan |-> acc.plan]

(* lines 650-720, the steps after the fetches.  fail names the step at whose
   start an exception escapes collect_repo ("none": no exception). *)
Persist(acc, date, packages_config, snapshot, clock, hist, fail) ==
    IF fail = "collect" THEN acc
    ELSE IF fail = "aggregate" THEN
        SaveSnapshot(acc, date, snapshot)
    ELSE IF fail = "releases" THEN
        AggregateStep(SaveSnapshot(acc, date, snapshot), date, snapshot)
    ELSE IF fail = "backfill" THEN
        ReleasesStep(AggregateStep(SaveSnapshot(acc, date, snapshot), date, snapshot),
                     date, snapshot.releases)
    ELSE IF fail = "packages" THEN
        BackfillStep(
            ReleasesStep(AggregateStep(SaveSnapshot(acc, date, snapshot), date, snapshot),
                         date, snapshot.releases),
            packages_config, clock, hist)
    ELSE IF fail = "star_history" THEN
        LiveStep(
            BackfillStep(
                ReleasesStep(AggregateStep(SaveSnapshot(acc, date, snapshot), date, snapshot),
                             date, snapshot.releases),
                packages_config, clock, hist),
            date, packages_config, snapshot.packages)
    ELSE
        StarStep(
            LiveStep(
                BackfillStep(
                    ReleasesStep(AggregateStep(SaveSnapshot(acc, date, snapshot), date, snapshot),
                                 date, snapshot.releases),
                    packages_config, clock, hist),
                date, packages_config, snapshot.packages),
            snapshot.star_history)

(* lines 599-720.  clock is the UTC day collect_package_history reads: date,
   or the day after when the run crosses midnight. *)
collect_repo(st, date, packages_config, rem, clock, fail) ==
    IF AlreadyCollected(st, date)
    THEN Outcome(Progress(st), "already collected", {})
    ELSE IF ~collect_repo_info(rem.repo).ok
    THEN Outcome(Progress(st), "no profile", {"repo_info"})
    ELSE Outcome(Persist(Progress(st), date, packages_config,
                         BuildSnapshot(collect_repo_info(rem.repo), rem.releases,
                                       rem.star_history,
                                       IF packages_config.configured
                                       THEN collect_package_downloads(packages_config, rem.live)
                                       ELSE <<>>),
                         clock, rem.hist, fail),
                 IF fail = "none" THEN "collected" ELSE "exception",
                 AllFetches(packages_config))

(* collect_repo's return value, where it returns *)
Returns(outcome) == outcome \in {"already collected", "collected"}

----------------------------------------------------------------------------
(* The environment of the passes: configuration and remote answers *)

PackagesConfig == [configured |-> TRUE, npm |-> <<"pkg-a", "pkg-b">>]

AssetName == "app.zip"

(* collect_releases, lines 186-200: a release with one asset *)
Release(tag, count) ==
    [tag |-> tag, assets |-> <<[name |-> AssetName, download_count |-> count, size |-> 1]>>]

(* two releases with one asset each *)
Releases(c1, c2) == <<Release("v1.0", c1), Release("v2.0", c2)>>

PointOk(n) == [status |-> HttpOk, downloads |-> n]
PointNotFound == [status |-> 404, downloads |-> 0]
NoDownloads == [daily |-> PointNotFound, weekly |-> PointNotFound]
SomeDownloads == [daily |-> PointOk(5), weekly |-> PointOk(20)]

RangeError == [status |-> 500, days |-> 0]
RangeOk(n) == [status |-> HttpOk, days |-> n]
RangeTimeout == [status |-> RequestException, days |-> 0]   \* the range request raises

Live(a, b) == [p \in {"pkg-a", "pkg-b"} |-> IF p = "pkg-a" THEN a ELSE b]

StarPoint(d, n) == [date |-> d, stars |-> n]

Remote(repo, releases, stars, live, hist) ==
    [repo |-> repo, releases |-> releases, star_history |-> stars,
     live |-> live, hist |-> hist]

ProfileOk(n) == [status |-> HttpOk, stars |-> n]
ProfileNotFound == [status |-> 404, stars |-> 0]

(* the answers one pass can meet *)
EndToEnd ==     \* two releases with counts 10 and 25, no package data
    Remote(ProfileOk(120), Releases(10, 25), <<StarPoint(1, 1)>>,
           Live(NoDownloads, NoDownloads), Live(RangeError, RangeError))
Rich ==         \* every sub-collection has data
    Remote(ProfileOk(120), Releases(12, 30), <<StarPoint(1, 1), StarPoint(2, 101)>>,
           Live(SomeDownloads, SomeDownloads), Live(RangeOk(BackfillThreshold - 1), RangeOk(1)))
Recent ==       \* a short package history
    Remote(ProfileOk(121), <<>>, <<StarPoint(1, 1)>>,
           Live(NoDownloads, SomeDownloads), Live(RangeOk(1), RangeOk(2)))

Remotes ==
    { Remote(ProfileNotFound, Releases(10, 25), <<>>,
             Live(NoDownloads, NoDownloads), Live(RangeError, RangeError)),
      EndToEnd,
      Rich,
      Recent,
      Remote(ProfileOk(121), <<Release("v1.0", 7)>>, <<>>,
             Live(NoDownloads, NoDownloads), Live(RangeOk(BackfillThreshold), RangeError)),
      Remote(ProfileOk(121), Releases(25, 10), <<>>,
             Live(NoDownloads, NoDownloads), Live(RangeOk(BackfillThreshold - 1), RangeError)),
      Remote(ProfileOk(120), Releases(10, 25), <<>>,
             Live(SomeDownloads, NoDownloads), Live(RangeError, RangeTimeout)) }

FailPoints == {"none", "collect", "aggregate", "releases", "backfill", "packages", "star_history"}

(* what a pass meets: the remote answers, the days by which the clock read in
   collect_package_history is ahead of main's date (1: the run crossed UTC
   midnight), and the step at which an exception escapes *)
Env(rem, late, fail) == [rem |-> rem, late |-> late, fail |-> fail]

Envs ==
    {Env(rem, 0, "none") : rem \in Remotes}
        \cup {Env(Rich, 0, fail) : fail \in FailPoints}
        \cup {Env(rem, 1, "none") : rem \in {Rich, Recent}}

----------------------------------------------------------------------------
(* Specification of the daily passes *)

NoResponse == [status |-> 0, downloads |-> <<>>]

NoPass == [date |-> 0, outcome |-> "none"]

(* op: the operation; date: its date argument; for collect_repo: offered (the
   profile answer the remote had for it), outcome, fetched (the fetches it
   made), appends (what each table append reported), plan (the backfill
   planner's doing) and prev (the pass before it); for a store operation: rows
   (the rows it was given to append) and ret (what it returned); for
   collect_repo also hist (how the registry answered the range requests the
   pass made) and fail (the step at which an exception escaped the pass) *)
InitLast == [op |-> "init", date |-> 0, offered |-> ProfileNotFound, outcome |-> "none",
             fetched |-> {}, appends |-> NoAppends, plan |-> NoPlan, prev |-> NoPass,
             rows |-> <<>>, ret |-> FALSE,
             hist |-> Live(RangeError, RangeError), fail |-> "none"]

InitFiles ==
    /\ snapshots = << >>
    /\ aggregate_csv = NoFile
    /\ releases_csv = NoFile
    /\ packages_csv = NoFile
    /\ star_history_csv = NoFile

(* stargazers and star_sample before collect_star_history is given a feed *)
NoFeed == [first |-> "status", page_count |-> 1, every |-> 0, how |-> "ok", chronological |-> TRUE]
NoSample == [points |-> <<>>, requested |-> <<>>, truncated |-> FALSE, caught |-> FALSE]

RepoNames == {"o/a", "o/b"}

(* a repository directory before its first pass *)
EmptyDir == [snapshots |-> << >>,
             aggregate_csv |-> NoFile,
             releases_csv |-> NoFile,
             packages_csv |-> NoFile,
             star_history_csv |-> NoFile]

NoConfig == [exists |-> FALSE, repos |-> <<>>]

(* main_run before main is started.  status: "idle", "running" (in the loop of
   lines 749-766) or "exited"; pos: the entry the loop is at; outcomes: what
   became of each entry the loop has been through; exit: main's return value,
   meaningful once status is "exited" *)
NoRun == [status |-> "idle", config |-> NoConfig, pos |-> 0, success_count |-> 0,
          outcomes |-> <<>>, exit |-> 0]

InitOthers ==
    /\ stargazers = NoFeed
    /\ star_sample = NoSample
    /\ data_dirs = [r \in RepoNames |-> EmptyDir]
    /\ main_run = NoRun

Init ==
    /\ today = FirstDay
    /\ InitFiles
    /\ last = InitLast
    /\ npm_response = NoResponse
    /\ npm_records = <<>>
    /\ InitOthers

(* one call collect_repo(repo_name, today, packages_config) from main *)
CollectRepo ==
    \E env \in Envs :
        \E r \in {collect_repo(State, today, PackagesConfig, env.rem, today + env.late, env.fail)} :
            /\ snapshots' = r.state.snapshots
            /\ aggregate_csv' = r.state.aggregate_csv
            /\ releases_csv' = r.state.releases_csv
            /\ packages_csv' = r.state.packages_csv
            /\ star_history_csv' = r.state.star_history_csv
            /\ last' = [InitLast EXCEPT !.op = "collect_repo",
                                        !.date = today,
                                        !.offered = env.rem.repo,
                                        !.outcome = r.outcome,
                                        !.fetched = r.fetched,
                                        !.appends = r.appends,
                                        !.plan = r.plan,
                                        !.hist = IF r.plan.ranged # {}
                                                 THEN env.rem.hist ELSE @,
                                        !.fail = IF r.outcome = "exception"
                                                 THEN env.fail ELSE @,
                                        !.prev = IF last.op = "collect_repo"
                                                 THEN [date |-> last.date, outcome |-> last.outcome]
                                                 ELSE NoPass]
            /\ UNCHANGED <<today, npm_response, npm_records,
                   star_vars, main_vars>>

(* the next run of main happens on a later UTC day *)
NextDay ==
    /\ today + 1 \in Days
    /\ today' = today + 1
    /\ UNCHANGED <<snapshots, aggregate_csv, releases_csv, packages_csv, star_history_csv,
                   last, npm_response, npm_records,
                   star_vars, main_vars>>

Next == CollectRepo \/ NextDay

(* a star-history table that was put into the directory by other means and is
   not small: the files this program writes hold at most sample_count rows and
   stay under SmallFileBytes, so line 711's size test tells them from such a
   table *)
ImportedStarHistory ==
    [exists |-> TRUE,
     rows |-> [i \in 1 .. (SmallFileBytes \div StarHeaderBytes) |-> [date |-> i, stars |-> i]]]

(* the directory before the first pass: empty, or holding only an imported
   star-history table *)
InitPasses ==
    /\ today = FirstDay
    /\ snapshots = << >>
    /\ aggregate_csv = NoFile
    /\ releases_csv = NoFile
    /\ packages_csv = NoFile
    /\ star_history_csv \in {NoFile, ImportedStarHistory}
    /\ last = InitLast
    /\ npm_response = NoResponse
    /\ npm_records = <<>>
    /\ InitOthers

Spec == InitPasses /\ [][Next]_vars

----------------------------------------------------------------------------
(* Specification of the store: the three append operations called directly,
   with any date and in any order, on one table at a time (each works on its
   own file) *)

(* the dates the store operations are called with *)
StoreDays == FirstDay .. (FirstDay + MaxStoreDays - 1)

OnlyFile(csv) ==
    /\ snapshots = << >>
    /\ \A other \in {"aggregate", "releases", "packages"} \ {csv} :
          CASE other = "aggregate" -> aggregate_csv = NoFile
            [] other = "releases" -> releases_csv = NoFile
            [] other = "packages" -> packages_csv = NoFile

StoreOp(op, date, rows, ret) ==
    [InitLast EXCEPT !.op = op, !.date = date, !.rows = rows, !.ret = ret]

AppendAggregateRow ==
    /\ OnlyFile("aggregate")
    /\ \E date \in StoreDays, stars \in {120, 121} :
          \E r \in {append_aggregate_row(aggregate_csv, date,
                          [repo |-> [ok |-> TRUE, stars |-> stars], releases_downloads |-> 35])} :
              /\ aggregate_csv' = r.csv
              /\ last' = StoreOp("append_aggregate_row", date,
                                 <<[date |-> date, stars |-> stars, releases_downloads |-> 35]>>,
                                 r.ret)
    /\ UNCHANGED <<today, snapshots, releases_csv, packages_csv, star_history_csv,
                   npm_response, npm_records,
                   star_vars, main_vars>>

(* lines 664-665: the previous counts are read from the file just before *)
UpdateReleasesCsv ==
    /\ OnlyFile("releases")
    /\ \E date \in StoreDays, releases \in {Releases(10, 25), Releases(12, 30),
                                            <<Release("v1.0", 7)>>, <<>>} :
          \E previous_releases \in {get_previous_releases_data(releases_csv)} :
          \E r \in {update_releases_csv(releases_csv, date, releases, previous_releases)} :
              /\ releases_csv' = r.csv
              /\ last' = StoreOp("update_releases_csv", date,
                                 ReleaseRows(date, releases, previous_releases), r.ret)
    /\ UNCHANGED <<today, snapshots, aggregate_csv, packages_csv, star_history_csv,
                   npm_response, npm_records,
                   star_vars, main_vars>>

UpdatePackagesCsv ==
    /\ OnlyFile("packages")
    /\ \E date \in StoreDays, live \in {Live(SomeDownloads, SomeDownloads),
                                   Live(NoDownloads, SomeDownloads),
                                   Live(NoDownloads, NoDownloads)} :
          \E packages_data \in {collect_package_downloads(PackagesConfig, live)} :
          \E r \in {update_packages_csv(packages_csv, date, packages_data)} :
              /\ packages_csv' = r.csv
              /\ last' = StoreOp("update_packages_csv", date,
                                 PackageRows(date, packages_data), r.ret)
    /\ UNCHANGED <<today, snapshots, aggregate_csv, releases_csv, star_history_csv,
                   npm_response, npm_records,
                   star_vars, main_vars>>

NextStore == AppendAggregateRow \/ UpdateReleasesCsv \/ UpdatePackagesCsv

SpecStore == Init /\ [][NextStore]_vars

----------------------------------------------------------------------------
(* Specification of collect_npm_history alone: the registry's answer is drawn
   in the initial state and the function is applied to it *)

DailyFigures == {0, 1}

(* a successful answer has one entry per day, the last one for yesterday *)
InitNpm ==
    /\ today = FirstDay
    /\ InitFiles
    /\ last = InitLast
    /\ InitOthers
    /\ npm_records = <<>>
    /\ npm_response \in
          UNION {{[status |-> HttpOk,
                   downloads |-> [i \in 1 .. n |->
                                     [day |-> FirstDay - 1 - n + i, downloads |-> d[i]]]] :
                     d \in [1 .. n -> DailyFigures]} : n \in 0 .. MaxBatch}
            \cup {[status |-> 404, downloads |-> <<>>], [status |-> 500, downloads |-> <<>>]}

CollectNpmHistory ==
    /\ last.op = "init"
    /\ npm_records' = collect_npm_history("pkg-a", npm_response)
    /\ last' = StoreOp("collect_npm_history", today, <<>>, npm_response.status = HttpOk)
    /\ UNCHANGED <<today, snapshots, aggregate_csv, releases_csv, packages_csv,
                   star_history_csv, npm_response, star_vars, main_vars>>

NextNpm == CollectNpmHistory

SpecNpm == InitNpm /\ [][NextNpm]_vars

----------------------------------------------------------------------------
(* Specification of collect_star_history alone: the feed is drawn in the
   initial state and the function is applied to it *)

Feed(first, page_count, every, how, chronological) ==
    [first |-> first, page_count |-> page_count, every |-> every, how |-> how,
     chronological |-> chronological]

PageCounts == 1 .. (PageCap + MaxExcess)

Failures == {"empty", "status", "exception"}

(* every page answers / every second or third page fails in one way / the
   first request is not answered with stargazers *)
Feeds ==
    {Feed("ok", p, 0, "ok", c) : p \in PageCounts, c \in BOOLEAN}
        \cup {Feed("ok", f[1], f[2], f[3], f[4]) :
                 f \in PageCounts \X {2, 3} \X Failures \X BOOLEAN}
        \cup {Feed(how, 1, 0, "ok", TRUE) : how \in Failures}

InitStars ==
    /\ today = FirstDay
    /\ InitFiles
    /\ last = InitLast
    /\ npm_response = NoResponse
    /\ npm_records = <<>>
    /\ star_sample = NoSample
    /\ data_dirs = [r \in RepoNames |-> EmptyDir]
    /\ main_run = NoRun
    /\ stargazers \in Feeds

(* line 627: collect_star_history(owner, repo), sample_count left at its default *)
CollectStarHistory ==
    /\ last.op = "init"
    /\ star_sample' = collect_star_history(stargazers, SampleCount)
    /\ last' = [InitLast EXCEPT !.op = "collect_star_history", !.date = today]
    /\ UNCHANGED <<today, snapshots, aggregate_csv, releases_csv, packages_csv,
                   star_history_csv, npm_response, npm_records, stargazers, main_vars>>

NextStars == CollectStarHistory

SpecStars == InitStars /\ [][NextStars]_vars

----------------------------------------------------------------------------
(* Specification of main: runs of main on one UTC day over several
   repositories, each with its own directory *)

(* a configuration entry is the repository's name; "" stands for an entry
   without one (repo_entry.get("repo") is None) *)
Entries == RepoNames \cup {""}

RECURSIVE Lists(_, _)
Lists(S, n) ==
    IF n = 0 THEN {<<>>}
    ELSE Lists(S, n - 1) \cup {Append(l, x) : l \in {m \in Lists(S, n - 1) : Len(m) = n - 1}, x \in S}

(* config.json: missing, or listing up to MaxRepos entries *)
Configs == {NoConfig} \cup {[exists |-> TRUE, repos |-> l] : l \in Lists(Entries, MaxRepos)}

(* what the passes of a run of main meet *)
MainEnvs ==
    {Env(Remote(ProfileNotFound, Releases(10, 25), <<>>,
                Live(NoDownloads, NoDownloads), Live(RangeError, RangeError)), 0, "none"),
     Env(EndToEnd, 0, "none"),
     Env(Rich, 0, "aggregate")}

(* mutant: any repository that succeeded makes the run a success *)
ExitStatus_AnySuccess(success_count, repos_config) == IF success_count > 0 THEN 0 ELSE 1

(* line 769 *)
ExitStatus(success_count, repos_config) ==
    IF success_count = Len(repos_config) THEN 0 ELSE 1

(* mutant: an exception leaves the loop *)
AfterEntry_AbortOnException(run, outcome) ==
    [run EXCEPT !.pos = IF outcome = "exception" THEN Len(run.config.repos) + 1 ELSE @ + 1,
                !.outcomes = Append(@, outcome),
                !.success_count = IF Returns(outcome) THEN @ + 1 ELSE @]

(* lines 759-766: the loop goes on to the next entry after a skipped entry, a
   pass that returned (counted when it returned True) and a caught exception *)
AfterEntry(run, outcome) ==
    [run EXCEPT !.pos = @ + 1,
                !.outcomes = Append(@, outcome),
                !.success_count = IF Returns(outcome) THEN @ + 1 ELSE @]

(* lines 729-748 *)
MainStart ==
    /\ main_run.status \in {"idle", "exited"}
    /\ \E config \in Configs :
          main_run' = IF ~config.exists \/ config.repos = <<>>
                      THEN [NoRun EXCEPT !.status = "exited", !.config = config, !.exit = 1]
                      ELSE [NoRun EXCEPT !.status = "running", !.config = config, !.pos = 1]
    /\ UNCHANGED <<today, snapshots, aggregate_csv, releases_csv, packages_csv,
                   star_history_csv, last, npm_response, npm_records, star_vars, data_dirs>>

(* lines 749-766: one entry of repos_config *)
MainCollect ==
    /\ main_run.status = "running"
    /\ main_run.pos <= Len(main_run.config.repos)
    /\ \E repo_name \in {main_run.config.repos[main_run.pos]} :
          IF repo_name = ""
          THEN /\ main_run' = AfterEntry(main_run, "invalid entry")
               /\ UNCHANGED data_dirs
          ELSE \E env \in MainEnvs :
                  \E r \in {collect_repo(data_dirs[repo_name], today, PackagesConfig,
                                         env.rem, today + env.late, env.fail)} :
                      /\ data_dirs' = [data_dirs EXCEPT ![repo_name] = r.state]
                      /\ main_run' = AfterEntry(main_run, r.outcome)
    /\ UNCHANGED <<today, snapshots, aggregate_csv, releases_csv, packages_csv,
                   star_history_csv, last, npm_response, npm_records, star_vars>>

(* lines 768-769 *)
MainExit ==
    /\ main_run.status = "running"
    /\ main_run.pos > Len(main_run.config.repos)
    /\ main_run' = [main_run EXCEPT
                       !.status = "exited",
                       !.exit = ExitStatus(main_run.success_count, main_run.config.repos)]
    /\ UNCHANGED <<today, snapshots, aggregate_csv, releases_csv, packages_csv,
                   star_history_csv, last, npm_response, npm_records, star_vars, data_dirs>>

NextMain == MainStart \/ MainCollect \/ MainExit

SpecMain == Init /\ [][NextMain]_vars

----------------------------------------------------------------------------
(* Properties *)

(* in Spec a step that keeps today is one call of collect_repo for today *)
PassStep == today' = today

RowDates(csv) == {csv.rows[i].date : i \in DOMAIN csv.rows}

SnapshotsKept == \A d \in DOMAIN snapshots : d \in DOMAIN snapshots' /\ snapshots'[d] = snapshots[d]

(* C1, as stated: a pass for a date that follows a completed pass for the same
   date leaves the persisted state (snapshots and the four tables) exactly as
   the first pass left it, whatever the remote answers.  "Completed" is read
   in the claim's favour: the first pass returned, True or False. *)
C1_SecondRunChangesNothing ==
    [][(PassStep /\ last.op = "collect_repo" /\ last.date = today
                 /\ last.outcome # "exception")
          => persisted' = persisted]_vars

(* C1, amended: the same, provided the first pass left a snapshot file for the
   date (it collected, skipped, or failed only after the snapshot write) *)
C1_SecondRunAfterSnapshot ==
    [][(PassStep /\ last.op = "collect_repo" /\ last.date = today
                 /\ today \in DOMAIN snapshots)
          => persisted' = persisted]_vars

(* a second pass has run on the date of a first pass that collected *)
C1_Witness ==
    /\ last.op = "collect_repo"
    /\ last.outcome = "already collected"
    /\ last.prev = [date |-> last.date, outcome |-> "collected"]
    /\ aggregate_csv.rows # <<>>

(* C2: when the snapshot for today exists as collect_repo starts, the pass
   fetches nothing, attempts no table append, leaves the snapshot and the four
   tables as they are and returns success ("already collected"); and no step
   ever removes or rewrites an existing snapshot *)
C2_SnapshotSkipsPass ==
    [][/\ (PassStep /\ today \in DOMAIN snapshots)
            => /\ persisted' = persisted
               /\ last'.outcome = "already collected"
               /\ Returns(last'.outcome)
               /\ last'.fetched = {}
               /\ last'.appends = NoAppends
       /\ SnapshotsKept]_vars

(* a pass was skipped although the remote profile differs from the snapshot's *)
C2_Witness ==
    /\ last.op = "collect_repo"
    /\ last.outcome = "already collected"
    /\ last.date \in DOMAIN snapshots
    /\ last.offered.status = HttpOk
    /\ last.offered.stars # snapshots[last.date].repo.stars

SamePair(r1, r2) == r1.tag = r2.tag /\ r1.asset_name = r2.asset_name

(* the rows of the same (tag, asset) pair persisted before row i was written *)
PriorRows(rows, i) == {j \in 1 .. (i - 1) : SamePair(rows[j], rows[i]) /\ rows[j].date # rows[i].date}

Latest(S) == CHOOSE j \in S : \A k \in S : k <= j

(* C3: every release-asset row has delta 0 when its pair has no prior row, and
   otherwise its count minus the pair's prior persisted count, negative when
   the count went down *)
C3_DeltaAgainstPrior ==
    \A i \in DOMAIN releases_csv.rows :
        LET row == releases_csv.rows[i]
            prior == PriorRows(releases_csv.rows, i)
        IN  IF prior = {}
            THEN row.downloads_delta = 0
            ELSE row.downloads_delta
                    = row.download_count - releases_csv.rows[Latest(prior)].download_count

(* a first row with a positive count and a later row with a negative delta *)
C3_Witness ==
    /\ \E i \in DOMAIN releases_csv.rows :
          /\ PriorRows(releases_csv.rows, i) = {}
          /\ releases_csv.rows[i].download_count > 0
    /\ \E i \in DOMAIN releases_csv.rows :
          /\ PriorRows(releases_csv.rows, i) # {}
          /\ releases_csv.rows[i].downloads_delta < 0

(* the end-to-end scenario: the pass just collected today, the remote had two
   releases with one asset each, counts 10 and 25, and releases.csv holds no
   row of an earlier date *)
EndToEndScenario ==
    /\ last.op = "collect_repo"
    /\ last.outcome = "collected"
    /\ last.date \in DOMAIN snapshots
    /\ snapshots[last.date].releases = Releases(10, 25)
    /\ \A i \in DOMAIN releases_csv.rows : releases_csv.rows[i].date = last.date

(* C4, as stated: in the end-to-end scenario exactly two release-asset rows
   are written and each row's delta equals its own download count *)
C4_DeltaIsOwnCount ==
    EndToEndScenario
        => /\ Len(releases_csv.rows) = 2
           /\ \A i \in DOMAIN releases_csv.rows :
                 releases_csv.rows[i].downloads_delta = releases_csv.rows[i].download_count

(* C4, amended: in the end-to-end scenario exactly two release-asset rows are
   written, with counts 10 and 25, and each row's delta is 0 *)
C4_DeltaIsZero ==
    EndToEndScenario
        => /\ Len(releases_csv.rows) = 2
           /\ releases_csv.rows[1].download_count = 10
           /\ releases_csv.rows[2].download_count = 25
           /\ \A i \in DOMAIN releases_csv.rows : releases_csv.rows[i].downloads_delta = 0

C4_Witness == EndToEndScenario /\ Len(releases_csv.rows) = 2

(* C5: the aggregate table holds at most one row per date *)
C5_OneAggregateRowPerDate ==
    \A i, j \in DOMAIN aggregate_csv.rows :
        aggregate_csv.rows[i].date = aggregate_csv.rows[j].date => i = j

(* an insertion for a date already in a table of several dates was attempted *)
C5_Witness ==
    /\ last.op = "append_aggregate_row"
    /\ ~last.ret
    /\ Len(aggregate_csv.rows) >= 2

(* what whole-date granularity asks of one append: before and after are the
   file before and after the call for date with the rows it was given *)
WholeDate(before, after, date, rows, ret) ==
    IF date \in RowDates(before)
    THEN after = before /\ ret = FALSE
    ELSE after.rows = before.rows \o rows /\ after.exists /\ ret = TRUE

(* C6: each of the three append operations writes nothing and returns False
   when some existing row has the date, and otherwise appends all the rows it
   was given and returns True *)
C6_WholeDateGranularity ==
    [][/\ last'.op = "append_aggregate_row"
            => WholeDate(aggregate_csv, aggregate_csv', last'.date, last'.rows, last'.ret)
       /\ last'.op = "update_releases_csv"
            => WholeDate(releases_csv, releases_csv', last'.date, last'.rows, last'.ret)
       /\ last'.op = "update_packages_csv"
            => WholeDate(packages_csv, packages_csv', last'.date, last'.rows, last'.ret)]_vars

(* an append was refused although a row it was given is not in the table *)
C6_Witness ==
    /\ last.op = "update_packages_csv"
    /\ ~last.ret
    /\ \E i \in DOMAIN last.rows :
          \A j \in DOMAIN packages_csv.rows : packages_csv.rows[j] # last.rows[i]

(* C7: the package table holds at most one row per (date, source, package) *)
C7_OnePackageRowPerDate ==
    \A i, j \in DOMAIN packages_csv.rows :
        (/\ packages_csv.rows[i].date = packages_csv.rows[j].date
         /\ packages_csv.rows[i].source = packages_csv.rows[j].source
         /\ packages_csv.rows[i].package = packages_csv.rows[j].package) => i = j

(* one pass appended historical rows and today's live rows *)
C7_Witness ==
    /\ last.op = "collect_repo"
    /\ last.plan.backfilled # <<>>
    /\ last.appends.packages = Appended

ConfiguredPackages == {PackagesConfig.npm[i] : i \in DOMAIN PackagesConfig.npm}

DatesOfPackage(csv, p) ==
    {csv.rows[i].date : i \in {k \in DOMAIN csv.rows : csv.rows[k].package = p}}

(* C8, as stated: a pass that reaches the backfill planner issues a range
   request for a package exactly when that package's own rows hold fewer than
   30 distinct dates *)
C8_PerPackageHistory ==
    [][(PassStep /\ last'.plan.planned)
          => \A p \in ConfiguredPackages :
                p \in last'.plan.ranged
                   <=> Cardinality(DatesOfPackage(packages_csv, p)) < BackfillThreshold]_vars

(* C8, amended: a pass that reaches the backfill planner issues a range request
   for every configured package when the package table as a whole (all
   packages together) holds fewer than 30 distinct dates, and for none when it
   holds 30 or more *)
C8_WholeTableHistory ==
    [][(PassStep /\ last'.plan.planned)
          => \A p \in ConfiguredPackages :
                p \in last'.plan.ranged
                   <=> Cardinality(RowDates(packages_csv)) < BackfillThreshold]_vars

(* the planner issued no range request while one package has fewer than 30 dates *)
C8_Witness ==
    /\ last.op = "collect_repo"
    /\ last.plan.planned
    /\ last.plan.ranged = {}
    /\ \E p \in ConfiguredPackages :
          Cardinality(DatesOfPackage(packages_csv, p)) < BackfillThreshold

(* C9: the rows a backfill appends to the package table all have dates that
   were absent from the table before the backfill *)
C9_BackfillSkipsKnownDates ==
    [][(PassStep /\ last'.op = "collect_repo")
          => /\ \A i \in DOMAIN last'.plan.backfilled :
                   last'.plan.backfilled[i].date \notin RowDates(packages_csv)
             /\ SubSeq(packages_csv'.rows, 1, Len(packages_csv.rows) + Len(last'.plan.backfilled))
                   = packages_csv.rows \o last'.plan.backfilled]_vars

(* a backfill appended some of the records it received and dropped others,
   into a table that already had rows *)
C9_Witness ==
    /\ last.op = "collect_repo"
    /\ last.plan.backfilled # <<>>
    /\ last.plan.received > Len(last.plan.backfilled)
    /\ Len(packages_csv.rows) > Len(last.plan.backfilled) + 2

RECURSIVE SumDaily(_, _, _)
SumDaily(downloads, lo, hi) ==
    IF lo > hi THEN 0 ELSE downloads[hi].downloads + SumDaily(downloads, lo, hi - 1)

(* C10: in the batch collect_npm_history builds from one range answer, the
   weekly value of record n (0-indexed) is the sum of the daily downloads of
   the answer's entries max(0, n-6)..n *)
C10_RollingSevenDays ==
    (last.op = "collect_npm_history" /\ npm_response.status = HttpOk)
        => /\ Len(npm_records) = Len(npm_response.downloads)
           /\ \A n \in 0 .. (Len(npm_records) - 1) :
                 npm_records[n + 1].weekly_downloads
                    = SumDaily(npm_response.downloads, Max(0, n - 6) + 1, n + 1)

(* a batch of more than seven records whose eighth weekly value leaves out a
   non-zero first day *)
C10_Witness ==
    /\ last.op = "collect_npm_history"
    /\ Len(npm_records) >= 8
    /\ npm_response.downloads[1].downloads = 1
    /\ npm_records[8].weekly_downloads = 7

(* collect_star_history has been applied to the feed *)
Sampled == last.op = "collect_star_history"

(* every request is answered with a non-empty page *)
AllAnswered(feed) == feed.first = "ok" /\ feed.every = 0

(* the point a page yields: the date its first stargazer starred and the
   number of that stargazer, 100 to a page *)
PointOf(feed, n) == [date |-> StarredAt(feed, n), stars |-> (n - 1) * PageSize + 1]

Points == {star_sample.points[i] : i \in DOMAIN star_sample.points}

(* C11: for a feed of p <= k pages, all answered with non-empty pages,
   collect_star_history returns exactly p points, the points of pages 1..p,
   the point of page 1 among them *)
C11_OnePointPerPage ==
    (Sampled /\ AllAnswered(stargazers) /\ stargazers.page_count <= SampleCount)
        => /\ Len(star_sample.points) = stargazers.page_count
           /\ Points = {PointOf(stargazers, n) : n \in 1 .. stargazers.page_count}
           /\ PointOf(stargazers, 1) \in Points

(* a feed of exactly k pages was sampled, page 1 holding the latest date *)
C11_Witness ==
    /\ Sampled
    /\ AllAnswered(stargazers)
    /\ stargazers.page_count = SampleCount
    /\ ~stargazers.chronological
    /\ Len(star_sample.points) = SampleCount
    /\ star_sample.points[SampleCount] = PointOf(stargazers, 1)

(* C12: for a feed of p > k pages, all answered with non-empty pages,
   collect_star_history returns exactly k points, of k different pages, the
   point of page 1 among them, in non-decreasing order of date *)
C12_ExactlyKSorted ==
    (Sampled /\ AllAnswered(stargazers) /\ stargazers.page_count > SampleCount)
        => /\ Len(star_sample.points) = SampleCount
           /\ \A i, j \in DOMAIN star_sample.points :
                 star_sample.points[i].stars = star_sample.points[j].stars => i = j
           /\ PointOf(stargazers, 1) \in Points
           /\ \A i \in 1 .. (Len(star_sample.points) - 1) :
                 star_sample.points[i].date <= star_sample.points[i + 1].date

(* rounding left page 1 out of the sample, it was forced in, and the sort
   moved its point from the front to the back *)
C12_Witness ==
    /\ Sampled
    /\ AllAnswered(stargazers)
    /\ ~stargazers.chronological
    /\ stargazers.page_count > SampleCount
    /\ RoundDiv(stargazers.page_count, SampleCount) > 1
    /\ star_sample.requested[1] = 1
    /\ star_sample.points[SampleCount] = PointOf(stargazers, 1)

(* C13: for a feed of more than 400 pages (the first request answered, which
   is how the page count is learnt), collect_star_history reports the
   truncation, makes no more than 400 requests and requests no page beyond 400 *)
C13_CapRespected ==
    (Sampled /\ stargazers.first \in {"ok", "empty"} /\ stargazers.page_count > PageCap)
        => /\ star_sample.truncated
           /\ Len(star_sample.requested) <= PageCap
           /\ \A i \in DOMAIN star_sample.requested : star_sample.requested[i] <= PageCap

(* a feed of more than 400 pages was sampled up to page 400 *)
C13_Witness ==
    /\ Sampled
    /\ stargazers.page_count > PageCap
    /\ star_sample.truncated
    /\ \E i \in DOMAIN star_sample.requested : star_sample.requested[i] = PageCap

(* C17, as stated: when the first request is answered with stargazers, the
   point of page 1 and the point of every other requested page that answered
   with a non-empty page are returned, whatever became of the other requests
   (a failed request drops only its own point); the result is empty when the
   first request failed *)
C17_FailureDropsOnlyThatPage ==
    Sampled
        => /\ stargazers.first \in {"status", "exception"} => star_sample.points = <<>>
           /\ stargazers.first = "ok"
                => /\ PointOf(stargazers, 1) \in Points
                   /\ \A i \in DOMAIN star_sample.requested :
                         PageAnswer(stargazers, star_sample.requested[i]) = "ok"
                            => PointOf(stargazers, star_sample.requested[i]) \in Points

(* main has returned from a run over a valid configuration: the file exists,
   lists at least one repository and every entry names one *)
ExitedValid ==
    /\ main_run.status = "exited"
    /\ main_run.config.exists
    /\ main_run.config.repos # <<>>
    /\ \A i \in DOMAIN main_run.config.repos : main_run.config.repos[i] # ""

Succeeded(outcome) == outcome \in {"collected", "already collected"}

Failed(outcome) == outcome \in {"exception", "no profile"}

(* C14: over a valid configuration main returns 0 exactly when the pass of
   every configured repository collected or found the date already collected,
   and returns 1 when some pass raised an exception or had no profile *)
C14_ExitStatusTellsSuccess ==
    ExitedValid
        => /\ DOMAIN main_run.outcomes = DOMAIN main_run.config.repos
           /\ main_run.exit = 0 <=> \A i \in DOMAIN main_run.outcomes : Succeeded(main_run.outcomes[i])
           /\ (\E i \in DOMAIN main_run.outcomes : Failed(main_run.outcomes[i])) => main_run.exit = 1

(* a run in which one repository succeeded and another had no profile exited *)
C14_Witness ==
    /\ ExitedValid
    /\ \E i \in DOMAIN main_run.outcomes : Succeeded(main_run.outcomes[i])
    /\ \E i \in DOMAIN main_run.outcomes : main_run.outcomes[i] = "no profile"
    /\ main_run.exit = 1

(* C15: a failed pass does not end the run: while the run is in its loop the
   entries before the loop's position, and only those, have been attempted,
   and main returns only when every entry has been attempted, those listed
   after a failed one included *)
C15_BatchContinues ==
    /\ main_run.status = "running"
          => Len(main_run.outcomes) = main_run.pos - 1
    /\ (main_run.status = "exited" /\ main_run.config.exists)
          => \A i \in DOMAIN main_run.config.repos :
                /\ i \in DOMAIN main_run.outcomes
                /\ main_run.config.repos[i] # "" => main_run.outcomes[i] # "invalid entry"

(* the first repository's pass raised an exception, or had no profile, and a
   repository listed after it was collected in the same run *)
C15_Witness ==
    /\ main_run.status = "exited"
    /\ Len(main_run.outcomes) >= 2
    /\ Failed(main_run.outcomes[1])
    /\ main_run.outcomes[Len(main_run.outcomes)] = "collected"

(* C16: a pass that finds no snapshot for today and gets no profile returns
   False, writes no snapshot and leaves the four tables as they were; and the
   pass that follows it on the same date, when it gets the profile and runs to
   its end, makes every fetch, writes the snapshot and appends the date's
   aggregate and release rows *)
C16_NoProfileAbortsPass ==
    [][/\ (PassStep /\ today \notin DOMAIN snapshots /\ last'.offered.status # HttpOk)
            => /\ last'.outcome = "no profile"
               /\ ~Returns(last'.outcome)
               /\ today \notin DOMAIN snapshots'
               /\ persisted' = persisted
       /\ (PassStep /\ last.op = "collect_repo" /\ last.outcome = "no profile"
                    /\ last.date = today /\ last'.offered.status = HttpOk
                    /\ last'.outcome # "exception")
            => /\ last'.outcome = "collected"
               /\ last'.fetched = AllFetches(PackagesConfig)
               /\ today \in DOMAIN snapshots'
               /\ last'.appends.aggregate = Appended
               /\ last'.appends.releases = Appended
               /\ today \in RowDates(aggregate_csv')]_vars

(* a pass collected the date after a pass without profile on the same date *)
C16_Witness ==
    /\ last.op = "collect_repo"
    /\ last.outcome = "collected"
    /\ last.prev = [date |-> last.date, outcome |-> "no profile"]
    /\ last.date \in DOMAIN snapshots
    /\ last.date \in RowDates(aggregate_csv)

(* line 711: the table is absent or under 500 bytes *)
SmallOrAbsent(csv) == ~csv.exists \/ StarFileBytes(csv) < SmallFileBytes

(* the star-history table a pass leaves when it writes the points it sampled *)
Replaced(points) == [exists |-> TRUE, rows |-> points]

(* C18, as stated: a pass that reaches the star-history step leaves the table
   holding exactly the points it sampled whenever the table was absent or
   small, and leaves the table as it was when it was present and not small *)
C18_ReplacedWhenSmall ==
    [][(PassStep /\ last'.outcome = "collected")
          => IF SmallOrAbsent(star_history_csv)
             THEN star_history_csv' = Replaced(snapshots'[today].star_history)
             ELSE star_history_csv' = star_history_csv]_vars

(* C18, amended: a pass that reaches the star-history step and sampled at
   least one point leaves the table holding exactly those points whenever the
   table was absent or small; a pass that sampled no point, or found the table
   present and not small, leaves the table as it was *)
C18_ReplacedWhenSmallAndSampled ==
    [][(PassStep /\ last'.outcome = "collected")
          => IF SmallOrAbsent(star_history_csv) /\ snapshots'[today].star_history # <<>>
             THEN star_history_csv' = Replaced(snapshots'[today].star_history)
             ELSE star_history_csv' = star_history_csv]_vars

(* the table holds the points of the last pass, and an earlier pass had
   sampled, and written, other points *)
C18_Witness ==
    /\ last.op = "collect_repo"
    /\ last.outcome = "collected"
    /\ star_history_csv = Replaced(snapshots[last.date].star_history)
    /\ \E d \in DOMAIN snapshots :
          /\ d < last.date
          /\ snapshots[d].star_history # <<>>
          /\ \E i \in DOMAIN snapshots[d].star_history :
                \A j \in DOMAIN star_history_csv.rows :
                   star_history_csv.rows[j] # snapshots[d].star_history[i]

(* the rows of releases_csv that belong to the pair of row r *)
RowsOfPair(csv, r) == {j \in DOMAIN csv.rows : SamePair(csv.rows[j], r)}

(* the last of them in file order *)
LastInFile(csv, r) == CHOOSE j \in RowsOfPair(csv, r) : \A k \in RowsOfPair(csv, r) : k <= j

(* one with the greatest date *)
GreatestDate(csv, r) ==
    CHOOSE j \in RowsOfPair(csv, r) :
        \A k \in RowsOfPair(csv, r) : csv.rows[k].date <= csv.rows[j].date

(* the greatest date of any row of the table *)
MostRecentDate(csv) == CHOOSE d \in RowDates(csv) : \A e \in RowDates(csv) : e <= d

(* C19: every row update_releases_csv appends has as delta its count minus
   the count of the last row of its pair in the file as it was before the
   call, wherever in the file and under whatever date that row is, and delta
   0 when the file had no row of the pair *)
C19_BaselineIsLastInFile ==
    [][(last'.op = "update_releases_csv" /\ last'.ret)
          => \A i \in DOMAIN last'.rows :
                last'.rows[i].downloads_delta
                   = IF RowsOfPair(releases_csv, last'.rows[i]) = {}
                     THEN 0
                     ELSE last'.rows[i].download_count
                            - releases_csv.rows[LastInFile(releases_csv, last'.rows[i])].download_count]_vars

(* a row was appended whose baseline, the pair's last row in the file, is not
   the pair's row of greatest date, has another count than that row, and is
   not a row of the table's most recent date *)
C19_Witness ==
    /\ last.op = "update_releases_csv"
    /\ last.ret
    /\ \E i \in DOMAIN last.rows :
          \E before \in {[exists |-> TRUE,
                          rows |-> SubSeq(releases_csv.rows, 1,
                                          Len(releases_csv.rows) - Len(last.rows))]} :
              /\ RowsOfPair(before, last.rows[i]) # {}
              /\ before.rows[LastInFile(before, last.rows[i])].date
                    < before.rows[GreatestDate(before, last.rows[i])].date
              /\ before.rows[LastInFile(before, last.rows[i])].download_count
                    # before.rows[GreatestDate(before, last.rows[i])].download_count
              /\ before.rows[LastInFile(before, last.rows[i])].date # MostRecentDate(before)
              /\ last.rows[i].downloads_delta
                    = last.rows[i].download_count
                        - before.rows[LastInFile(before, last.rows[i])].download_count

(* C20: once the snapshot for today exists, no pass for today attempts a table
   append: a table left without rows for today by a pass that failed after
   the snapshot write stays without them in every later pass for today, and
   the star-history table stays as that pass left it *)
C20_FailedAppendNeverRetried ==
    [][(PassStep /\ today \in DOMAIN snapshots)
          => /\ last'.appends = NoAppends
             /\ today \notin RowDates(aggregate_csv) => today \notin RowDates(aggregate_csv')
             /\ today \notin RowDates(releases_csv) => today \notin RowDates(releases_csv')
             /\ today \notin RowDates(packages_csv) => today \notin RowDates(packages_csv')
             /\ star_history_csv' = star_history_csv]_vars

(* a pass wrote the snapshot, with releases, package figures and star points
   in it, and failed before the aggregate append; the next pass for the date
   found the date collected and the tables are without rows for it *)
C20_Witness ==
    /\ last.op = "collect_repo"
    /\ last.outcome = "already collected"
    /\ last.prev = [date |-> last.date, outcome |-> "exception"]
    /\ last.date \in DOMAIN snapshots
    /\ snapshots[last.date].releases # <<>>
    /\ snapshots[last.date].packages # <<>>
    /\ snapshots[last.date].star_history # <<>>
    /\ last.date \notin RowDates(aggregate_csv)
    /\ last.date \notin RowDates(releases_csv)
    /\ last.date \notin RowDates(packages_csv)
    /\ ~star_history_csv.exists

(* every range request of the pass failed: a status other than 200, or an
   exception raised by the request *)
RangeRequestsFailed(pass) ==
    /\ pass.plan.ranged # {}
    /\ \A p \in pass.plan.ranged : pass.hist[p].status # HttpOk

(* C21: a pass whose historical range requests all fail, and which no
   exception from another step ends, appends today's live package rows (the
   packages figures of its snapshot) to the package table, reports the append
   and returns True *)
C21_BackfillErrorKeepsLive ==
    [][(PassStep /\ RangeRequestsFailed(last') /\ last'.fail = "none")
          => /\ last'.outcome = "collected"
             /\ Returns(last'.outcome)
             /\ last'.plan.backfilled = <<>>
             /\ snapshots'[today].packages # <<>>
                   => /\ last'.appends.packages = Appended
                      /\ packages_csv'.rows
                            = packages_csv.rows \o PackageRows(today, snapshots'[today].packages)]_vars

(* a pass got a status error for one range request and an exception for the
   other, and today's live rows are in the package table *)
C21_Witness ==
    /\ last.op = "collect_repo"
    /\ RangeRequestsFailed(last)
    /\ \E p \in last.plan.ranged : last.hist[p].status = RequestException
    /\ \E p \in last.plan.ranged : last.hist[p].status \notin {RequestException, HttpOk}
    /\ last.outcome = "collected"
    /\ last.appends.packages = Appended
    /\ last.date \in RowDates(packages_csv)

StoreOps == {"append_aggregate_row", "update_releases_csv", "update_packages_csv"}

(* the table a store operation works on *)
TableOf(op) ==
    CASE op = "append_aggregate_row" -> aggregate_csv
      [] op = "update_releases_csv" -> releases_csv
      [] op = "update_packages_csv" -> packages_csv

(* C22, as stated, for the attempt that comes next: when an append on a table
   has returned True for a date, the next append on that table for the same
   date returns False and leaves the table as it was, whatever rows either of
   them carried, none included *)
C22_AppendedOnceThenPresent ==
    [][(last.op \in StoreOps /\ last.ret /\ last'.op = last.op /\ last'.date = last.date)
          => /\ ~last'.ret
             /\ aggregate_csv' = aggregate_csv
             /\ releases_csv' = releases_csv
             /\ packages_csv' = packages_csv]_vars

(* file before is kept, row for row, at the start of file after *)
IsPrefix(before, after) ==
    /\ before.exists => after.exists
    /\ Len(before.rows) <= Len(after.rows)
    /\ SubSeq(after.rows, 1, Len(before.rows)) = before.rows

(* C23: whatever a pass does (collects, is skipped, has no profile, fails at
   any step), the aggregate, release-asset and package tables as they were
   before it are prefixes of what they are after it *)
C23_TablesAppendOnly ==
    [][PassStep
          => /\ IsPrefix(aggregate_csv, aggregate_csv')
             /\ IsPrefix(releases_csv, releases_csv')
             /\ IsPrefix(packages_csv, packages_csv')]_vars

(* a pass appended to all three tables, each of which had rows before, the
   package table both historical rows and today's *)
C23_Witness ==
    /\ last.op = "collect_repo"
    /\ last.appends = [aggregate |-> Appended, releases |-> Appended, packages |-> Appended]
    /\ last.plan.backfilled # <<>>
    /\ Len(aggregate_csv.rows) >= 2
    /\ \E i \in DOMAIN releases_csv.rows : releases_csv.rows[i].date < last.date
    /\ Len(packages_csv.rows) > Len(last.plan.backfilled) + Len(snapshots[last.date].packages)

(* C24: every date that has a row in the aggregate table or in the
   release-asset table has a snapshot file *)
C24_SnapshotBeforeRows ==
    RowDates(aggregate_csv) \cup RowDates(releases_csv) \subseteq DOMAIN snapshots

(* one date has its snapshot and its rows in both tables, another has its
   snapshot only, the pass having failed before the appends *)
C24_Witness ==
    /\ \E d \in DOMAIN snapshots : d \in RowDates(aggregate_csv) \cap RowDates(releases_csv)
    /\ \E d \in DOMAIN snapshots : d \notin RowDates(aggregate_csv) \cup RowDates(releases_csv)

(* the sum of the deltas of the rows of r's pair among the first n rows *)
RECURSIVE SumDeltas(_, _, _)
SumDeltas(rows, r, n) ==
    IF n = 0 THEN 0
    ELSE (IF SamePair(rows[n], r) THEN rows[n].downloads_delta ELSE 0) + SumDeltas(rows, r, n - 1)

FirstInFile(csv, r) == CHOOSE j \in RowsOfPair(csv, r) : \A k \in RowsOfPair(csv, r) : j <= k

(* C25: for every (tag, asset) pair of the release-asset table, the deltas of
   the pair's rows add up to the count of its last row minus the count of its
   first row (every append carries a pair at most once) *)
C25_DeltasTelescope ==
    \A i \in DOMAIN releases_csv.rows :
        SumDeltas(releases_csv.rows, releases_csv.rows[i], Len(releases_csv.rows))
            = releases_csv.rows[LastInFile(releases_csv, releases_csv.rows[i])].download_count
                - releases_csv.rows[FirstInFile(releases_csv, releases_csv.rows[i])].download_count

(* a pair has rows on both sides of a date on which it was absent while
   another pair was present, and its count changed across that date *)
C25_Witness ==
    \E i, j, k \in DOMAIN releases_csv.rows :
        /\ i < j /\ j < k
        /\ SamePair(releases_csv.rows[i], releases_csv.rows[k])
        /\ releases_csv.rows[j].date \notin {releases_csv.rows[i].date, releases_csv.rows[k].date}
        /\ \A m \in DOMAIN releases_csv.rows :
              releases_csv.rows[m].date = releases_csv.rows[j].date
                 => ~SamePair(releases_csv.rows[m], releases_csv.rows[i])
        /\ releases_csv.rows[k].downloads_delta # 0
        /\ releases_csv.rows[k].downloads_delta
              = releases_csv.rows[k].download_count - releases_csv.rows[i].download_count

====
